---- MODULE Spec2Model ----
(***************************************************************************)
(* Model of the main() functions of the installation-medium module         *)
(* (plugins/modules/foreman_installation_medium.py) and of the host module *)
(* (plugins/modules/host.py), run against a small remote service.          *)
(*                                                                         *)
(* One behaviour is: an invocation (run 1) of one of the two modules with  *)
(* some arguments against some remote state, followed, when it succeeded,  *)
(* by a second invocation (run 2) with the same arguments.                 *)
(*                                                                         *)
(* The shared helper (module_utils/foreman_helper.py: foreman_params,      *)
(* list_resource, show_resource, find_resource_by_name, resolve_entities,  *)
(* ensure_entity, run, ensure_puppetclasses, fail_json, exit_json) is      *)
(* modelled from the specification's sections 4.1 - 4.6 and 6.             *)
(***************************************************************************)
EXTENDS Integers, Sequences, FiniteSets, TLC

VARIABLES
    mod,            \* which module's main() runs: "medium" or "host"
    args,           \* the invocation's arguments (the same in both runs)
    media,          \* remote: the installation media, in listing order
    hosts,          \* remote: the hosts, in listing order
    run,            \* 1 or 2: which of the two consecutive invocations
    first,          \* what run 1 ended with (changed flag, remote state)
    pc,             \* position of main()
    module_params,  \* module.foreman_params / module_params (an ordered dict)
    entity,         \* main()'s local `entity`
    entities,       \* main()'s local `entities`
    idx,            \* position of the for loop over `entities`
    calls,          \* remote calls issued by this invocation, in order
    ensured,        \* the ensure_entity calls of this invocation, with their arguments
    connected,      \* whether module.api_connection() has been entered
    failed,         \* fail_json was called
    msg,            \* fail_json's message
    changed,        \* module.changed, as reported on exit
    warnings,       \* module.warn messages
    hookRuns        \* how many times ensure_puppetclasses ran

vars == <<mod, args, media, hosts, run, first, pc, module_params, entity, entities,
          idx, calls, ensured, connected, failed, msg, changed, warnings, hookRuns>>

(***************************************************************************)
(* Bounds of the model.                                                    *)
(***************************************************************************)
MaxMedia == 2

(***************************************************************************)
(* Python values.                                                          *)
(***************************************************************************)
None == "None"
NoEntity == [id |-> 0]
NoMsg == [kind |-> "none", keys |-> <<>>]

\* Python truthiness of an optional string
Truthy(s) == s \notin {None, ""}

(***************************************************************************)
(* Python dicts, insertion ordered: sequences of <<key, value>> pairs.     *)
(***************************************************************************)
HasKey(d, k) == \E i \in 1..Len(d) : d[i][1] = k

Get(d, k) == d[CHOOSE i \in 1..Len(d) : d[i][1] = k][2]

DictKeys(d) == [i \in 1..Len(d) |-> d[i][1]]

Pop(d, k) == SelectSeq(d, LAMBDA p : p[1] # k)

Put(d, k, v) ==
    IF HasKey(d, k)
    THEN [i \in 1..Len(d) |-> IF d[i][1] = k THEN <<k, v>> ELSE d[i]]
    ELSE Append(d, <<k, v>>)

Range(s) == {s[i] : i \in 1..Len(s)}

(***************************************************************************)
(* The remote service.  Entities are records; a record of a listing is     *)
(* "thin" (id and name only), a shown record is full.                      *)
(***************************************************************************)
OperatingSystems ==
    << [id |-> 1, name |-> "Debian", family |-> "Debian"],
       [id |-> 2, name |-> "CentOS", family |-> "Redhat"] >>

Users == << [id |-> 1, name |-> "admin"] >>

Usergroups == << [id |-> 1, name |-> "ops"] >>

MediumDefaults == [path |-> "", os_family |-> "", operatingsystems |-> {}]

HostDefaults == [puppetclasses |-> {}]

Call(op, res, arg) == [op |-> op, res |-> res, arg |-> arg]

Thin(e) == [id |-> e.id, name |-> e.name]

\* list(entity_type) -> sequence of shallow records
ListResource(remote) == [i \in 1..Len(remote) |-> Thin(remote[i])]

\* show(entity_type, id) -> full record
ShowResource(remote, id) == remote[CHOOSE i \in 1..Len(remote) : remote[i].id = id]

\* find_unique(entity_type, name) with failsafe: the record, or None
FindResourceByName(remote, name) ==
    IF \E i \in 1..Len(remote) : remote[i].name = name
    THEN remote[CHOOSE i \in 1..Len(remote) : remote[i].name = name]
    ELSE NoEntity

NewId(remote) ==
    IF remote = <<>> THEN 1
    ELSE 1 + (CHOOSE m \in {remote[i].id : i \in 1..Len(remote)} :
                 \A i \in 1..Len(remote) : remote[i].id <= m)

(***************************************************************************)
(* The helper's view of the parameters.                                    *)
(***************************************************************************)
\* module.foreman_params: the supplied parameters of foreman_spec, in the
\* order of foreman_spec, followed by the helper's own 'entity' entry
ForemanParams(raw) == Append(raw, <<"entity", Get(raw, "name")>>)

\* reference-typed parameters and the remote collection each resolves in
RefTable(k) ==
    CASE k = "operatingsystems" -> OperatingSystems
      [] k = "owner" -> Users
      [] k = "owner_group" -> Usergroups
      [] OTHER -> <<>>

IsRefList(k) == k = "operatingsystems"

IsRef(k) == k \in {"owner", "owner_group"}

Resolvable(k, v) ==
    CASE IsRefList(k) ->
            \A i \in 1..Len(v) : FindResourceByName(RefTable(k), v[i]) # NoEntity
      [] IsRef(k) -> FindResourceByName(RefTable(k), v) # NoEntity
      [] OTHER -> TRUE

ResolveValue(k, v) ==
    CASE IsRefList(k) ->
            [i \in 1..Len(v) |-> Thin(FindResourceByName(RefTable(k), v[i]))]
      [] IsRef(k) -> Thin(FindResourceByName(RefTable(k), v))
      [] OTHER -> v

\* resolve_entities / auto_lookup_entities: every reference of the
\* parameters replaced by the record it names; NotFound is fatal
CanResolve(params) ==
    \A i \in 1..Len(params) : Resolvable(params[i][1], params[i][2])

ResolveEntities(params) ==
    [i \in 1..Len(params) |-> <<params[i][1], ResolveValue(params[i][1], params[i][2])>>]

\* the key a parameter is sent and compared under
FlatName(k) == IF k \in {"owner", "owner_group"} THEN "owner_id" ELSE k

FlatValue(k, v) ==
    CASE IsRefList(k) -> {v[i].id : i \in 1..Len(v)}
      [] IsRef(k) -> v.id
      [] OTHER -> v

\* parameters that are never sent: the helper's 'entity' entry
Ensured(k) == k # "entity"

\* the body sent to the remote service for a desired state
Payload(params, updated_name) ==
    LET ks == {k \in Range(DictKeys(params)) : Ensured(k)}
        src(f) == CHOOSE k \in ks : FlatName(k) = f
    IN  [f \in {FlatName(k) : k \in ks} |->
            IF f = "name" /\ Truthy(updated_name)
            THEN updated_name
            ELSE FlatValue(src(f), Get(params, src(f)))]

\* the fields of the desired body that differ from the snapshot
Diff(payload, ent) ==
    {f \in DOMAIN payload : f \notin DOMAIN ent \/ ent[f] # payload[f]}

Overlay(base, payload) ==
    [f \in DOMAIN base \cup DOMAIN payload |->
        IF f \in DOMAIN payload THEN payload[f] ELSE base[f]]

NameTaken(remote, id, payload) ==
    /\ "name" \in DOMAIN payload
    /\ \E i \in 1..Len(remote) : remote[i].id # id /\ remote[i].name = payload.name

RemoveId(remote, id) == SelectSeq(remote, LAMBDA e : e.id # id)

UpdateId(remote, id, payload) ==
    [i \in 1..Len(remote) |->
        IF remote[i].id = id THEN Overlay(remote[i], payload) ELSE remote[i]]

Outcome(remote, ch, fl, body) ==
    [remote |-> remote, changed |-> ch, failed |-> fl, entity |-> body]

\* ensure_entity: section 4.4's table.  `reject` is the remote service
\* refusing the mutating call, when one is issued.
EnsureEntity(remote, defaults, state, params, ent, updated_name, reject) ==
    IF state = "absent"
    THEN IF ent = NoEntity THEN Outcome(remote, FALSE, FALSE, NoEntity)
         ELSE IF reject THEN Outcome(remote, FALSE, TRUE, ent)
         ELSE Outcome(RemoveId(remote, ent.id), TRUE, FALSE, NoEntity)
    ELSE LET payload == Payload(params, updated_name) IN
         IF ent = NoEntity
         THEN IF reject \/ NameTaken(remote, 0, payload)
              THEN Outcome(remote, FALSE, TRUE, NoEntity)
              ELSE LET new == Overlay([id |-> NewId(remote)] @@ defaults, payload)
                   IN  Outcome(Append(remote, new), TRUE, FALSE, new)
         ELSE IF state = "present_with_defaults" \/ Diff(payload, ent) = {}
         THEN Outcome(remote, FALSE, FALSE, ent)
         ELSE IF reject \/ NameTaken(remote, ent.id, payload)
         THEN Outcome(remote, FALSE, TRUE, ent)
         ELSE Outcome(UpdateId(remote, ent.id, payload), TRUE, FALSE,
                      Overlay(ShowResource(remote, ent.id), payload))

\* whether ensure_entity issues a mutating call for these arguments
Mutates(state, params, ent, updated_name) ==
    IF state = "absent" THEN ent # NoEntity
    ELSE \/ ent = NoEntity
         \/ state = "present" /\ Diff(Payload(params, updated_name), ent) # {}

(***************************************************************************)
(* foreman_installation_medium.py: main()                                  *)
(***************************************************************************)
Fail(kind, keys) == [kind |-> kind, keys |-> keys]

\* line 111
AffectsMultiple(params) == Get(params, "name") = "*"

\* Faulty variant of WildcardValidation: the guard of lines 118-122 is missing
WildcardValidationWithoutAbsentGuard(params, state, updated_name) ==
    IF ~AffectsMultiple(params)
    THEN [msg |-> NoMsg, params |-> params]
    ELSE IF state = "present_with_defaults"
    THEN [msg |-> Fail("present_with_defaults and name: * cannot be used together", <<>>),
          params |-> params]
    ELSE IF Truthy(updated_name)
    THEN [msg |-> Fail("updated_name not allowed if name: *", <<>>), params |-> params]
    ELSE [msg |-> NoMsg, params |-> params]

\* Faulty variant of WildcardValidation: the check of lines 116-117 is missing
WildcardValidationWithoutRenameCheck(params, state, updated_name) ==
    IF ~AffectsMultiple(params)
    THEN [msg |-> NoMsg, params |-> params]
    ELSE IF state = "present_with_defaults"
    THEN [msg |-> Fail("present_with_defaults and name: * cannot be used together", <<>>),
          params |-> params]
    ELSE IF state = "absent" /\ DictKeys(params) # <<"name", "entity">>
    THEN LET rest == Pop(Pop(params, "name"), "entity")
         IN  [msg |-> Fail("When deleting all installation media, there is no need to specify further parameters",
                           DictKeys(rest)),
              params |-> rest]
    ELSE [msg |-> NoMsg, params |-> params]

\* Faulty variant of WildcardValidation: line 119 compares the keys with ['name']
WildcardValidationNameOnly(params, state, updated_name) ==
    IF ~AffectsMultiple(params)
    THEN [msg |-> NoMsg, params |-> params]
    ELSE IF state = "present_with_defaults"
    THEN [msg |-> Fail("present_with_defaults and name: * cannot be used together", <<>>),
          params |-> params]
    ELSE IF Truthy(updated_name)
    THEN [msg |-> Fail("updated_name not allowed if name: *", <<>>), params |-> params]
    ELSE IF state = "absent" /\ DictKeys(params) # <<"name">>
    THEN LET rest == Pop(Pop(params, "name"), "entity")
         IN  [msg |-> Fail("When deleting all installation media, there is no need to specify further parameters",
                           DictKeys(rest)),
              params |-> rest]
    ELSE [msg |-> NoMsg, params |-> params]

\* lines 113-122: "sanitize user input, filter unuseful configuration
\* combinations with 'name: *'".  The result is the fail_json message (NoMsg
\* when none is raised) and module_params as the pops of lines 120-121 leave it.
WildcardValidation(params, state, updated_name) ==
    IF ~AffectsMultiple(params)
    THEN [msg |-> NoMsg, params |-> params]
    ELSE IF state = "present_with_defaults"
    THEN [msg |-> Fail("present_with_defaults and name: * cannot be used together", <<>>),
          params |-> params]
    ELSE IF Truthy(updated_name)
    THEN [msg |-> Fail("updated_name not allowed if name: *", <<>>), params |-> params]
    ELSE IF state = "absent" /\ DictKeys(params) # <<"name", "entity">>
    THEN LET rest == Pop(Pop(params, "name"), "entity")
         IN  [msg |-> Fail("When deleting all installation media, there is no need to specify further parameters",
                           DictKeys(rest)),
              params |-> rest]
    ELSE [msg |-> NoMsg, params |-> params]

\* Faulty variant of BulkEntities: the listed records are used as they are
BulkEntitiesThin(state, remote) == ListResource(remote)

\* lines 125-127: the candidates of a bulk action, thin when they are to be
\* deleted and shown one by one otherwise
BulkEntities(state, remote) ==
    IF state = "absent"
    THEN ListResource(remote)
    ELSE [i \in 1..Len(remote) |-> ShowResource(remote, ListResource(remote)[i].id)]

BulkCalls(state, remote) ==
    <<Call("list_resource", "media", 0)>> \o
    (IF state = "absent" THEN <<>>
     ELSE [i \in 1..Len(remote) |-> Call("show_resource", "media", remote[i].id)])

\* Faulty variant of NothingToDo: the shortcut is missing
NothingToDoNever(ents) == FALSE

\* lines 128-130: "Nothing to do shortcut to exit"
NothingToDo(ents) == ents = <<>>

\* Faulty variant of DerivesOsFamily: `entity is None` is not asked for
DerivesOsFamilyAlways(params, ent) ==
    /\ HasKey(params, "operatingsystems")
    /\ ~AffectsMultiple(params)
    /\ Len(Get(params, "operatingsystems")) = 1
    /\ ~HasKey(params, "os_family")

\* lines 136-137: whether os_family is derived from the operating system
DerivesOsFamily(params, ent) ==
    /\ HasKey(params, "operatingsystems")
    /\ ~AffectsMultiple(params)
    /\ Len(Get(params, "operatingsystems")) = 1
    /\ ~HasKey(params, "os_family")
    /\ ent = NoEntity

\* line 138
DerivedOsFamily(params) ==
    ShowResource(OperatingSystems, Get(params, "operatingsystems")[1].id).family

\* Faulty variant of LoopNext: the loop goes on after a fatal failure
LoopNextIgnoringFailure(i, n, fatal) == IF i >= n THEN 0 ELSE i + 1

\* lines 144-145: which of `entities` the loop turns to after position i,
\* given whether ensure_entity ended the invocation there (0: none)
LoopNext(i, n, fatal) == IF fatal \/ i >= n THEN 0 ELSE i + 1

\* lines 91-106
MediumConstruct ==
    /\ mod = "medium" /\ pc = "start"
    /\ module_params' = ForemanParams(args.params)
    /\ entity' = NoEntity
    /\ pc' = "validate"
    /\ UNCHANGED <<mod, args, media, hosts, run, first, entities, idx, calls, ensured,
                   connected, failed, msg, changed, warnings, hookRuns>>

\* lines 108-122
MediumValidate ==
    /\ mod = "medium" /\ pc = "validate"
    /\ connected' = TRUE
    /\ LET v == WildcardValidation(module_params, args.state, args.updated_name) IN
        /\ module_params' = v.params
        /\ msg' = v.msg
        /\ failed' = (v.msg # NoMsg)
        /\ pc' = IF v.msg # NoMsg THEN "done" ELSE "locate"
    /\ UNCHANGED <<mod, args, media, hosts, run, first, entity, entities, idx, calls,
                   ensured, changed, warnings, hookRuns>>

\* lines 124-132
MediumLocate ==
    /\ mod = "medium" /\ pc = "locate"
    /\ IF AffectsMultiple(module_params)
       THEN /\ entities' = BulkEntities(args.state, media)
            /\ calls' = calls \o BulkCalls(args.state, media)
            /\ entity' = entity
            /\ pc' = IF NothingToDo(entities') THEN "done" ELSE "resolve"
       ELSE /\ entity' = FindResourceByName(media, Get(module_params, "name"))
            /\ calls' = Append(calls, Call("find_resource_by_name", "media", 0))
            /\ entities' = entities
            /\ pc' = "resolve"
    /\ UNCHANGED <<mod, args, media, hosts, run, first, module_params, idx, ensured,
                   connected, failed, msg, changed, warnings, hookRuns>>

\* lines 134-138
MediumResolve ==
    /\ mod = "medium" /\ pc = "resolve"
    /\ IF args.state = "absent"
       THEN /\ pc' = "ensure"
            /\ UNCHANGED <<module_params, calls, failed, msg>>
       ELSE IF ~CanResolve(module_params)
       THEN /\ calls' = Append(calls, Call("resolve_entities", "media", 0))
            /\ failed' = TRUE
            /\ msg' = Fail("Found no operatingsystems", <<>>)
            /\ pc' = "done"
            /\ UNCHANGED module_params
       ELSE LET resolved == ResolveEntities(module_params) IN
            /\ IF DerivesOsFamily(resolved, entity)
               THEN /\ module_params' = Put(resolved, "os_family", DerivedOsFamily(resolved))
                    /\ calls' = calls \o
                         << Call("resolve_entities", "media", 0),
                            Call("show_resource", "operatingsystems",
                                 Get(resolved, "operatingsystems")[1].id) >>
               ELSE /\ module_params' = resolved
                    /\ calls' = Append(calls, Call("resolve_entities", "media", 0))
            /\ pc' = "ensure"
            /\ UNCHANGED <<failed, msg>>
    /\ UNCHANGED <<mod, args, media, hosts, run, first, entity, entities, idx, ensured,
                   connected, changed, warnings, hookRuns>>

\* lines 140-141
MediumEnsure ==
    /\ mod = "medium" /\ pc = "ensure" /\ ~AffectsMultiple(module_params)
    /\ \E reject \in {r \in BOOLEAN :
                        r => Mutates(args.state, module_params, entity, args.updated_name)} :
        LET o == EnsureEntity(media, MediumDefaults, args.state, module_params, entity,
                              args.updated_name, reject) IN
        /\ media' = o.remote
        /\ changed' = (changed \/ o.changed)
        /\ failed' = o.failed
        /\ msg' = IF o.failed THEN Fail("remote rejection", <<>>) ELSE msg
    /\ calls' = Append(calls, Call("ensure_entity", "media", entity.id))
    /\ ensured' = Append(ensured, [entity |-> entity, params |-> module_params])
    /\ pc' = "done"
    /\ UNCHANGED <<mod, args, hosts, run, first, module_params, entity, entities, idx,
                   connected, warnings, hookRuns>>

\* lines 142-143
MediumBulkBegin ==
    /\ mod = "medium" /\ pc = "ensure" /\ AffectsMultiple(module_params)
    /\ module_params' = Pop(module_params, "name")
    /\ idx' = LoopNext(0, Len(entities), FALSE)
    /\ pc' = IF idx' = 0 THEN "done" ELSE "loop"
    /\ UNCHANGED <<mod, args, media, hosts, run, first, entity, entities, calls, ensured,
                   connected, failed, msg, changed, warnings, hookRuns>>

\* Variant of MediumBulkStep that shows the medium again at the start of
\* its own turn instead of using the record fetched before the loop
MediumBulkStepRefetching ==
    /\ mod = "medium" /\ pc = "loop"
    /\ entity' = IF args.state = "absent" THEN entities[idx]
                 ELSE ShowResource(media, entities[idx].id)
    /\ \E reject \in {r \in BOOLEAN :
                        r => Mutates(args.state, module_params, entity', args.updated_name)} :
        LET o == EnsureEntity(media, MediumDefaults, args.state, module_params, entity',
                              args.updated_name, reject) IN
        /\ media' = o.remote
        /\ changed' = (changed \/ o.changed)
        /\ failed' = o.failed
        /\ msg' = IF o.failed THEN Fail("remote rejection", <<>>) ELSE msg
        /\ idx' = LoopNext(idx, Len(entities), o.failed)
    /\ calls' = calls \o << Call("show_resource", "media", entity'.id),
                           Call("ensure_entity", "media", entity'.id) >>
    /\ ensured' = Append(ensured, [entity |-> entity', params |-> module_params])
    /\ pc' = IF idx' = 0 THEN "done" ELSE "loop"
    /\ UNCHANGED <<mod, args, hosts, run, first, module_params, entities, connected,
                   warnings, hookRuns>>

\* lines 144-145: one turn of the loop
MediumBulkStep ==
    /\ mod = "medium" /\ pc = "loop"
    /\ entity' = entities[idx]
    /\ \E reject \in {r \in BOOLEAN :
                        r => Mutates(args.state, module_params, entity', args.updated_name)} :
        LET o == EnsureEntity(media, MediumDefaults, args.state, module_params, entity',
                              args.updated_name, reject) IN
        /\ media' = o.remote
        /\ changed' = (changed \/ o.changed)
        /\ failed' = o.failed
        /\ msg' = IF o.failed THEN Fail("remote rejection", <<>>) ELSE msg
        /\ idx' = LoopNext(idx, Len(entities), o.failed)
    /\ calls' = Append(calls, Call("ensure_entity", "media", entity'.id))
    /\ ensured' = Append(ensured, [entity |-> entity', params |-> module_params])
    /\ pc' = IF idx' = 0 THEN "done" ELSE "loop"
    /\ UNCHANGED <<mod, args, hosts, run, first, module_params, entities, connected,
                   warnings, hookRuns>>

(***************************************************************************)
(* host.py: main()                                                         *)
(***************************************************************************)
\* values of an interface record's keys, with the Python type they carry
PyStr(x) == [type |-> "str", str |-> x, bool |-> FALSE, int |-> 0, list |-> <<>>]

PyBool(x) == [type |-> "bool", str |-> "", bool |-> x, int |-> 0, list |-> <<>>]

PyInt(x) == [type |-> "int", str |-> "", bool |-> FALSE, int |-> x, list |-> <<>>]

PyList(x) == [type |-> "list", str |-> "", bool |-> FALSE, int |-> 0, list |-> x]

\* the value of an option of the record that was not supplied
PyNone == [type |-> "none", str |-> "", bool |-> FALSE, int |-> 0, list |-> <<>>]

\* Python truthiness of such a value (line 449: `if v`)
PyTrue(v) ==
    CASE v.type = "str" -> v.str # ""
      [] v.type = "bool" -> v.bool
      [] v.type = "int" -> v.int # 0
      [] v.type = "list" -> v.list # <<>>
      [] OTHER -> FALSE

\* str.lower() on the hardware addresses of the model
Lower(x) == CASE x = "AA:BB:01" -> "aa:bb:01" [] OTHER -> x

\* Faulty variant of MutuallyExclusive: no mutually_exclusive is declared
MutuallyExclusiveNever(params) == FALSE

\* lines 418-420, checked by the module's constructor
MutuallyExclusive(params) == HasKey(params, "owner") /\ HasKey(params, "owner_group")

\* lines 427-428
IsFQDN(name) == name \in {"host.example.com"}

\* Faulty variant of NormalizeBuild: an explicit managed is warned about but kept
NormalizeBuildKeepingManaged(params) ==
    IF HasKey(params, "build") /\ Get(params, "build")
    THEN [params |-> IF HasKey(params, "managed") THEN params ELSE Put(params, "managed", TRUE),
          warned |-> HasKey(params, "managed") /\ ~Get(params, "managed")]
    ELSE IF ~HasKey(params, "build") /\ HasKey(params, "managed") /\ ~Get(params, "managed")
    THEN [params |-> Put(params, "build", FALSE), warned |-> FALSE]
    ELSE [params |-> params, warned |-> FALSE]

\* Faulty variant of NormalizeBuild: the branch of lines 436-438 is missing
NormalizeBuildWithoutClear(params) ==
    IF HasKey(params, "build") /\ Get(params, "build")
    THEN [params |-> Put(params, "managed", TRUE),
          warned |-> HasKey(params, "managed") /\ ~Get(params, "managed")]
    ELSE [params |-> params, warned |-> FALSE]

\* lines 431-438: [params, warned]
NormalizeBuild(params) ==
    IF HasKey(params, "build") /\ Get(params, "build")
    THEN [params |-> Put(params, "managed", TRUE),
          warned |-> HasKey(params, "managed") /\ ~Get(params, "managed")]
    ELSE IF ~HasKey(params, "build") /\ HasKey(params, "managed") /\ ~Get(params, "managed")
    THEN [params |-> Put(params, "build", FALSE), warned |-> FALSE]
    ELSE [params |-> params, warned |-> FALSE]

\* lines 440-441
NormalizeMac(params) ==
    IF HasKey(params, "mac") THEN Put(params, "mac", Lower(Get(params, "mac"))) ELSE params

\* lines 443-446
NormalizeOwner(params) ==
    IF HasKey(params, "owner") THEN Put(params, "owner_type", "User")
    ELSE IF HasKey(params, "owner_group") THEN Put(params, "owner_type", "Usergroup")
    ELSE params

\* Faulty variant of PruneNic: only the values that are not set are dropped
PruneNicOnlyUnset(obj) == SelectSeq(obj, LAMBDA p : p[2].type # "none")

\* line 449: the inner dict comprehension
PruneNic(obj) == SelectSeq(obj, LAMBDA p : PyTrue(p[2]))

\* line 449: the list comprehension
FilterNics(objs) ==
    SelectSeq([i \in 1..Len(objs) |-> PruneNic(objs[i])], LAMBDA nic : nic # <<>>)

\* lines 448-450
NormalizeInterfaces(params) ==
    IF HasKey(params, "interfaces_attributes")
    THEN Put(params, "interfaces_attributes", FilterNics(Get(params, "interfaces_attributes")))
    ELSE params

\* Faulty variant of RunsHook: environment_id is not asked for
RunsHookWithoutEnvironment(state, ent) == state # "absent"

\* line 457
RunsHook(state, ent) == state # "absent" /\ "environment_id" \in DOMAIN ent

\* ensure_puppetclasses: the host's classes replaced by the expected ones
EnsurePuppetclasses(remote, id, expected) ==
    [i \in 1..Len(remote) |->
        IF remote[i].id = id THEN [remote[i] EXCEPT !.puppetclasses = expected]
        ELSE remote[i]]

\* lines 366-424
HostConstruct ==
    /\ mod = "host" /\ pc = "start"
    /\ module_params' = ForemanParams(args.params)
    /\ IF MutuallyExclusive(args.params)
       THEN /\ failed' = TRUE
            /\ msg' = Fail("parameters are mutually exclusive", <<"owner", "owner_group">>)
            /\ pc' = "done"
       ELSE /\ pc' = "checkname"
            /\ UNCHANGED <<failed, msg>>
    /\ UNCHANGED <<mod, args, media, hosts, run, first, entity, entities, idx, calls,
                   ensured, connected, changed, warnings, hookRuns>>

\* lines 427-428
HostCheckName ==
    /\ mod = "host" /\ pc = "checkname"
    /\ IF IsFQDN(Get(module_params, "name"))
       THEN /\ pc' = "normalize"
            /\ UNCHANGED <<failed, msg>>
       ELSE /\ failed' = TRUE
            /\ msg' = Fail("The hostname must be FQDN", <<>>)
            /\ pc' = "done"
    /\ UNCHANGED <<mod, args, media, hosts, run, first, module_params, entity, entities,
                   idx, calls, ensured, connected, changed, warnings, hookRuns>>

\* lines 430-450
HostNormalize ==
    /\ mod = "host" /\ pc = "normalize"
    /\ IF args.state # "absent"
       THEN LET b == NormalizeBuild(module_params) IN
            /\ module_params' = NormalizeInterfaces(NormalizeOwner(NormalizeMac(b.params)))
            /\ warnings' = IF b.warned
                           THEN Append(warnings, "when build=True, managed is ignored and forced to True")
                           ELSE warnings
       ELSE UNCHANGED <<module_params, warnings>>
    /\ pc' = "connect"
    /\ UNCHANGED <<mod, args, media, hosts, run, first, entity, entities, idx, calls,
                   ensured, connected, failed, msg, changed, hookRuns>>

\* lines 452-455
HostConnect ==
    /\ mod = "host" /\ pc = "connect"
    /\ connected' = TRUE
    /\ IF args.state # "absent"
       THEN /\ calls' = Append(calls, Call("auto_lookup_entities", "hosts", 0))
            /\ IF CanResolve(module_params)
               THEN /\ module_params' = Pop(ResolveEntities(module_params), "puppetclasses")
                    /\ pc' = "run"
                    /\ UNCHANGED <<failed, msg>>
               ELSE /\ failed' = TRUE
                    /\ msg' = Fail("Found no entity", <<>>)
                    /\ pc' = "done"
                    /\ UNCHANGED module_params
       ELSE /\ module_params' = Pop(module_params, "puppetclasses")
            /\ pc' = "run"
            /\ UNCHANGED <<calls, failed, msg>>
    /\ UNCHANGED <<mod, args, media, hosts, run, first, entity, entities, idx, ensured,
                   changed, warnings, hookRuns>>

\* line 456: module.run() looks the host up by name and ensures it
HostRun ==
    /\ mod = "host" /\ pc = "run"
    /\ LET found == FindResourceByName(hosts, Get(module_params, "name")) IN
       \E reject \in {r \in BOOLEAN : r => Mutates(args.state, module_params, found, None)},
          defaults \in {HostDefaults, [environment_id |-> 1] @@ HostDefaults} :
        LET o == EnsureEntity(hosts, defaults, args.state, module_params, found, None, reject) IN
        /\ hosts' = o.remote
        /\ changed' = (changed \/ o.changed)
        /\ failed' = o.failed
        /\ msg' = IF o.failed THEN Fail("remote rejection", <<>>) ELSE msg
        /\ entity' = o.entity
        /\ calls' = calls \o << Call("find_resource_by_name", "hosts", 0),
                               Call("ensure_entity", "hosts", found.id) >>
        /\ ensured' = Append(ensured, [entity |-> found, params |-> module_params])
        /\ pc' = IF o.failed THEN "done" ELSE "hook"
    /\ UNCHANGED <<mod, args, media, run, first, module_params, entities, idx, connected,
                   warnings, hookRuns>>

\* lines 457-458
HostHook ==
    /\ mod = "host" /\ pc = "hook"
    /\ IF RunsHook(args.state, entity)
       THEN /\ hookRuns' = hookRuns + 1
            /\ calls' = Append(calls, Call("ensure_puppetclasses", "hosts", entity.id))
            /\ IF HasKey(args.params, "puppetclasses")
               THEN LET expected == Range(Get(args.params, "puppetclasses")) IN
                    /\ hosts' = EnsurePuppetclasses(hosts, entity.id, expected)
                    /\ changed' = (changed \/ hosts' # hosts)
               ELSE UNCHANGED <<hosts, changed>>
       ELSE UNCHANGED <<hookRuns, calls, hosts, changed>>
    /\ pc' = "done"
    /\ UNCHANGED <<mod, args, media, run, first, module_params, entity, entities, idx,
                   ensured, connected, failed, msg, warnings>>

(***************************************************************************)
(* The invocations.                                                        *)
(***************************************************************************)
\* an optional parameter: not supplied, or supplied with one of the values
Opt(k, values) == {<<>>} \cup {<< <<k, v>> >> : v \in values}

MediumNames == <<"m1", "m2", "m3", "m4">>

MediumInputs ==
    { [ params |-> << <<"name", n>> >> \o os \o fam \o path,
        updated_name |-> un,
        state |-> st ] :
        n \in {"*", "m1", "new"},
        os \in Opt("operatingsystems",
                   {<<>>, <<"Debian">>, <<"Debian", "CentOS">>, <<"Plan9">>}),
        fam \in Opt("os_family", {"Debian", "Redhat"}),
        path \in Opt("path", {"p1", "p2"}),
        un \in {None, "", "renamed"},
        st \in {"present", "present_with_defaults", "absent"} }

NicFull == << <<"mac", PyStr("aa:bb:01")>>, <<"managed", PyBool(TRUE)>>, <<"mtu", PyInt(1500)>> >>

NicFalsy ==
    << <<"mac", PyStr("")>>, <<"managed", PyBool(FALSE)>>, <<"mtu", PyInt(0)>>,
       <<"attached_devices", PyList(<<>>)>>, <<"tag", PyNone>> >>

NicMixed ==
    << <<"mac", PyStr("aa:bb:02")>>, <<"ip", PyStr("")>>, <<"managed", PyBool(FALSE)>>,
       <<"mtu", PyInt(0)>>, <<"attached_devices", PyList(<<"eth0">>)>>, <<"tag", PyNone>> >>

HostInputs ==
    { [ params |-> << <<"name", n>> >> \o ma \o bu \o mac \o ow \o og \o nics \o pcs,
        updated_name |-> None,
        state |-> st ] :
        n \in {"host.example.com", "host"},
        ma \in Opt("managed", BOOLEAN),
        bu \in Opt("build", BOOLEAN),
        mac \in Opt("mac", {"AA:BB:01"}),
        ow \in Opt("owner", {"admin", "nobody"}),
        og \in Opt("owner_group", {"ops"}),
        nics \in Opt("interfaces_attributes", {<<NicFull>>, <<NicFalsy, NicMixed>>, <<NicMixed, NicFalsy, NicFull>>}),
        pcs \in Opt("puppetclasses", {<<"ntp">>}),
        st \in {"present", "absent"} }

\* the remote media a run can start from: of the media 1..n, any may exist
RECURSIVE MediaStates(_)
MediaStates(n) ==
    IF n = 0 THEN {<<>>}
    ELSE LET rest == MediaStates(n - 1) IN
         rest \cup
         { Append(r, [id |-> n, name |-> MediumNames[n], path |-> p,
                      os_family |-> "Redhat", operatingsystems |-> {}]) :
           r \in rest, p \in {"p1", "p2"} }

HostStates ==
    {<<>>} \cup
    { << [id |-> 1, name |-> "host.example.com", build |-> FALSE, managed |-> m,
          puppetclasses |-> {}] >> : m \in BOOLEAN } \cup
    { << [id |-> 1, name |-> "host.example.com", build |-> FALSE, managed |-> m,
          puppetclasses |-> {}, environment_id |-> 1] >> : m \in BOOLEAN }

Fresh ==
    /\ pc = "start"
    /\ module_params = <<>>
    /\ entity = NoEntity
    /\ entities = <<>>
    /\ idx = 0
    /\ calls = <<>>
    /\ ensured = <<>>
    /\ connected = FALSE
    /\ failed = FALSE
    /\ msg = NoMsg
    /\ changed = FALSE
    /\ warnings = <<>>
    /\ hookRuns = 0

Init ==
    /\ \/ /\ mod = "medium"
          /\ args \in MediumInputs
          /\ media \in MediaStates(MaxMedia)
          /\ hosts = <<>>
       \/ /\ mod = "host"
          /\ args \in HostInputs
          /\ media = <<>>
          /\ hosts \in HostStates
    /\ run = 1
    /\ first = [changed |-> FALSE, media |-> <<>>, hosts |-> <<>>]
    /\ Fresh

\* the same invocation once more, after the first one succeeded
SecondRun ==
    /\ pc = "done" /\ run = 1 /\ ~failed
    /\ run' = 2
    /\ first' = [changed |-> changed, media |-> media, hosts |-> hosts]
    /\ pc' = "start"
    /\ module_params' = <<>>
    /\ entity' = NoEntity
    /\ entities' = <<>>
    /\ idx' = 0
    /\ calls' = <<>>
    /\ ensured' = <<>>
    /\ connected' = FALSE
    /\ failed' = FALSE
    /\ msg' = NoMsg
    /\ changed' = FALSE
    /\ warnings' = <<>>
    /\ hookRuns' = 0
    /\ UNCHANGED <<mod, args, media, hosts>>

Next ==
    \/ MediumConstruct
    \/ MediumValidate
    \/ MediumLocate
    \/ MediumResolve
    \/ MediumEnsure
    \/ MediumBulkBegin
    \/ MediumBulkStep
    \/ HostConstruct
    \/ HostCheckName
    \/ HostNormalize
    \/ HostConnect
    \/ HostRun
    \/ HostHook
    \/ SecondRun

Spec == Init /\ [][Next]_vars

(***************************************************************************)
(* Properties.                                                             *)
(***************************************************************************)
ArgName == Get(args.params, "name")

Supplies(k) == HasKey(args.params, k)

\* the remote calls the installation-medium module can issue
NoRemoteCall == calls = <<>> /\ ensured = <<>>

\* main() is past the wildcard validation of lines 111-122
Validated == pc \notin {"start", "validate"}

AbsentMessage ==
    "When deleting all installation media, there is no need to specify further parameters"

\* C1, as stated: with name '*' and state absent, any supplied parameter
\* other than name makes the invocation fail before any remote call, with a
\* message that enumerates the supplied parameters without 'name'.
C1_AsStated ==
    (mod = "medium" /\ ArgName = "*" /\ args.state = "absent"
        /\ Len(args.params) > 1)
    => /\ NoRemoteCall
       /\ Validated => /\ pc = "done" /\ failed
                       /\ msg = Fail(AbsentMessage, Tail(DictKeys(args.params)))

\* C1, amended: with name '*' and state absent, any supplied parameter of
\* foreman_spec other than name (operatingsystems, os_family, path) makes the
\* invocation fail before any remote call; the message enumerates those
\* supplied parameters, unless a non-empty updated_name is supplied as well,
\* in which case the message is the one about updated_name.
C1_AbsentWildcardRejectsParameters ==
    (mod = "medium" /\ ArgName = "*" /\ args.state = "absent"
        /\ Len(args.params) > 1)
    => /\ NoRemoteCall
       /\ Validated =>
            /\ pc = "done" /\ failed
            /\ IF Truthy(args.updated_name)
               THEN msg = Fail("updated_name not allowed if name: *", <<>>)
               ELSE msg = Fail(AbsentMessage, Tail(DictKeys(args.params)))

C1_Witness ==
    /\ mod = "medium" /\ ArgName = "*" /\ args.state = "absent"
    /\ pc = "done" /\ failed /\ calls = <<>>
    /\ msg = Fail(AbsentMessage, <<"operatingsystems", "path">>)

\* C2, as stated: with name '*', supplying updated_name or using state
\* present_with_defaults makes the invocation fail with a descriptive message
\* before any remote call.
C2_AsStated ==
    (mod = "medium" /\ ArgName = "*"
        /\ (args.updated_name # None \/ args.state = "present_with_defaults"))
    => /\ NoRemoteCall
       /\ Validated => pc = "done" /\ failed /\ msg # NoMsg

\* C2, amended: with name '*', supplying a non-empty updated_name or using
\* state present_with_defaults makes the invocation fail with a descriptive
\* message before any remote call.
C2_WildcardRejectsRenameAndDefaults ==
    (mod = "medium" /\ ArgName = "*"
        /\ (Truthy(args.updated_name) \/ args.state = "present_with_defaults"))
    => /\ NoRemoteCall
       /\ Validated =>
            /\ pc = "done" /\ failed
            /\ msg.kind \in {"present_with_defaults and name: * cannot be used together",
                             "updated_name not allowed if name: *"}
            /\ (msg.kind = "updated_name not allowed if name: *"
                    => Truthy(args.updated_name))
            /\ (args.state = "present_with_defaults"
                    => msg.kind = "present_with_defaults and name: * cannot be used together")

C2_Witness ==
    /\ mod = "medium" /\ ArgName = "*" /\ args.state = "present"
    /\ Truthy(args.updated_name)
    /\ pc = "done" /\ failed /\ calls = <<>>
    /\ msg.kind = "updated_name not allowed if name: *"

\* an invocation with name '*' that passes the wildcard validation
PassesWildcardValidation ==
    /\ ArgName = "*"
    /\ args.state # "present_with_defaults"
    /\ ~Truthy(args.updated_name)
    /\ args.state = "absent" => Len(args.params) = 1

\* C3: with name '*' and a remote collection that lists no media, every
\* invocation that passes the wildcard validation exits successfully with
\* changed=false, having issued the initial listing and no other remote call.
C3_WildcardFastExit ==
    (mod = "medium" /\ PassesWildcardValidation
        /\ pc \notin {"start", "validate", "locate"} /\ entities = <<>>)
    => /\ pc = "done" /\ ~failed /\ ~changed
       /\ calls = <<Call("list_resource", "media", 0)>>
       /\ ensured = <<>>

C3_Witness ==
    /\ mod = "medium" /\ ArgName = "*" /\ args.state = "present" /\ Supplies("path")
    /\ run = 1 /\ media = <<>>
    /\ pc = "done" /\ ~failed /\ ~changed
    /\ calls = <<Call("list_resource", "media", 0)>>

\* the desired states the idempotence guarantee is given for
Idempotent == args.updated_name = None /\ ~Supplies("interfaces_attributes")

SingleCandidate ==
    /\ mod = "medium" /\ args.state # "absent" /\ ArgName # "*"
    /\ Supplies("operatingsystems")
    /\ Len(Get(args.params, "operatingsystems")) = 1
    /\ CanResolve(args.params)
    /\ ~Supplies("os_family")

TheOperatingSystem ==
    FindResourceByName(OperatingSystems, Get(args.params, "operatingsystems")[1])

FetchesOperatingSystem ==
    \E i \in 1..Len(calls) : calls[i].op = "show_resource" /\ calls[i].res = "operatingsystems"

Normalized == mod = "host" /\ (pc \in {"connect", "run", "hook"} \/ (pc = "done" /\ connected))

BuildWarning == "when build=True, managed is ignored and forced to True"

\* C6: in a non-absent invocation with build=true the normalized desired
\* state has managed=true whatever managed was supplied as, the warning is
\* emitted exactly when managed was supplied as false, and the rule does not
\* end the invocation.
C6_BuildForcesManaged ==
    (mod = "host" /\ args.state # "absent"
        /\ Supplies("build") /\ Get(args.params, "build"))
    => /\ ~Normalized => warnings = <<>>
       /\ Normalized =>
            /\ HasKey(module_params, "managed") /\ Get(module_params, "managed")
            /\ HasKey(module_params, "build") /\ Get(module_params, "build")
            /\ IF Supplies("managed") /\ ~Get(args.params, "managed")
               THEN warnings = <<BuildWarning>>
               ELSE warnings = <<>>
       /\ pc = "connect" => ~failed

C6_Witness ==
    /\ mod = "host" /\ args.state = "present"
    /\ Supplies("build") /\ Get(args.params, "build")
    /\ Supplies("managed") /\ ~Get(args.params, "managed")
    /\ pc = "done" /\ ~failed /\ run = 1
    /\ warnings = <<BuildWarning>>
    /\ Get(module_params, "managed")
    /\ hosts # <<>> /\ hosts[1].managed /\ hosts[1].build

\* C7: an invocation of the host module that supplies both owner and
\* owner_group fails validation whatever else it supplies, before the API
\* connection is entered and before any remote call.
C7_OwnerMutualExclusion ==
    (mod = "host" /\ Supplies("owner") /\ Supplies("owner_group"))
    => /\ ~connected /\ NoRemoteCall
       /\ pc \in {"start", "done"}
       /\ pc = "done" =>
            /\ failed
            /\ msg = Fail("parameters are mutually exclusive", <<"owner", "owner_group">>)

C7_Witness ==
    /\ mod = "host" /\ Supplies("owner") /\ Supplies("owner_group")
    /\ ArgName = "host" /\ args.state = "absent"
    /\ pc = "done" /\ failed /\ ~connected

HookCalls == SelectSeq(calls, LAMBDA c : c.op = "ensure_puppetclasses")

\* C9: ensure_puppetclasses never runs when the desired state is absent;
\* otherwise it runs at most once, after module.run has returned without a
\* fatal error, and only when the returned body carries environment_id.
C9_HookOnlyAfterPresentRun ==
    mod = "host"
    => /\ Len(HookCalls) = hookRuns
       /\ hookRuns <= 1
       /\ args.state = "absent" => hookRuns = 0
       /\ hookRuns = 1
            => /\ pc = "done" /\ ~failed
               /\ "environment_id" \in DOMAIN entity
               /\ calls[Len(calls)].op = "ensure_puppetclasses"
               /\ calls[Len(calls) - 1].op = "ensure_entity"
               /\ Len(ensured) = 1
       /\ (pc = "done" /\ connected /\ ~failed /\ args.state # "absent"
             /\ "environment_id" \notin DOMAIN entity) => hookRuns = 0

C9_Witness ==
    /\ mod = "host" /\ args.state = "present" /\ Supplies("puppetclasses")
    /\ run = 1 /\ pc = "done" /\ ~failed /\ hookRuns = 1
    /\ hosts[1].puppetclasses = {"ntp"}

\* C10: with name '*', ensure_entity is called on the listed media one at a
\* time in listing order, and a fatal failure on one medium ends the
\* invocation: ensure_entity is called for no medium after it.
C10_BulkInOrderAndAbort ==
    (mod = "medium" /\ ArgName = "*")
    => /\ Len(ensured) <= Len(entities)
       /\ \A i \in 1..Len(ensured) : ensured[i].entity = entities[i]
       /\ pc = "loop" => idx = Len(ensured) + 1 /\ ~failed
       /\ failed => pc = "done" /\ idx = 0
       /\ (pc = "done" /\ ~failed /\ entities # <<>>) => Len(ensured) = Len(entities)

C10_Witness ==
    /\ mod = "medium" /\ ArgName = "*" /\ args.state = "present"
    /\ Len(entities) = MaxMedia
    /\ pc = "done" /\ failed /\ msg = Fail("remote rejection", <<>>)
    /\ Len(ensured) = 1 /\ ensured[1].entity = entities[1]

\* managed is in the normalized desired state as it was supplied
ManagedAsSupplied ==
    /\ HasKey(module_params, "managed") <=> Supplies("managed")
    /\ Supplies("managed") => Get(module_params, "managed") = Get(args.params, "managed")

\* C11: in a non-absent invocation, when build is not supplied and managed
\* is explicitly false the normalized desired state contains build=false;
\* when build is not supplied and managed is true or not supplied no build
\* field is added; when build is explicitly false neither build nor managed
\* is altered.
C11_ManagedFalseClearsBuild ==
    (Normalized /\ args.state # "absent")
    => /\ (~Supplies("build") /\ Supplies("managed") /\ ~Get(args.params, "managed"))
            => /\ HasKey(module_params, "build") /\ ~Get(module_params, "build")
               /\ ManagedAsSupplied
       /\ (~Supplies("build") /\ (~Supplies("managed") \/ Get(args.params, "managed")))
            => /\ ~HasKey(module_params, "build")
               /\ ManagedAsSupplied
       /\ (Supplies("build") /\ ~Get(args.params, "build"))
            => /\ HasKey(module_params, "build") /\ ~Get(module_params, "build")
               /\ ManagedAsSupplied
       /\ (~Supplies("build") \/ ~Get(args.params, "build")) => warnings = <<>>

C11_Witness ==
    /\ mod = "host" /\ args.state = "present" /\ run = 1
    /\ ~Supplies("build") /\ Supplies("managed") /\ ~Get(args.params, "managed")
    /\ pc = "done" /\ ~failed /\ changed
    /\ HasKey(module_params, "build") /\ ~Get(module_params, "build")
    /\ hosts # <<>> /\ ~hosts[1].build /\ ~hosts[1].managed

\* a remote read of the media: the listing, or one medium shown
IsMediaFetch(c) == c.res = "media" /\ c.op \in {"list_resource", "show_resource"}

IsEnsure(c) == c.op = "ensure_entity"

\* positions in `calls` of the ensure_entity calls
EnsurePositions == {i \in 1..Len(calls) : IsEnsure(calls[i])}

\* C12, as stated: in bulk mode the snapshot a medium is reconciled with is
\* fetched at the start of that medium's own reconciliation, after the
\* reconciliation of every earlier medium has completed: between the
\* ensure_entity call of one medium and that of the next lies a fetch.
C12_AsStated ==
    (mod = "medium" /\ ArgName = "*")
    => \A i, j \in EnsurePositions :
          i < j => \E k \in (i + 1)..(j - 1) : IsMediaFetch(calls[k])

\* C12, amended: in bulk mode the snapshots of all media are fetched once,
\* before the first ensure_entity call: the listing, followed for a desired
\* state other than absent by one show_resource per listed medium.  Each
\* medium is reconciled with the snapshot taken then, and no remote read is
\* issued once the first ensure_entity call has been made.
C12_SnapshotsFetchedBeforeLoop ==
    (mod = "medium" /\ PassesWildcardValidation
        /\ pc \notin {"start", "validate", "locate"})
    => LET fetches == <<Call("list_resource", "media", 0)>> \o
                      (IF args.state = "absent" THEN <<>>
                       ELSE [i \in 1..Len(entities) |->
                                Call("show_resource", "media", entities[i].id)])
       IN
       /\ Len(calls) >= Len(fetches)
       /\ SubSeq(calls, 1, Len(fetches)) = fetches
       /\ \A i \in 1..Len(calls) :
            IsMediaFetch(calls[i]) => \A j \in EnsurePositions : i < j
       /\ \A i \in EnsurePositions : \A j \in (i + 1)..Len(calls) : IsEnsure(calls[j])
       /\ \A i \in 1..Len(ensured) : ensured[i].entity = entities[i]
       /\ pc \in {"resolve", "ensure"}
            => entities = (IF args.state = "absent" THEN ListResource(media) ELSE media)

C12_Witness ==
    /\ mod = "medium" /\ ArgName = "*" /\ args.state = "present" /\ run = 1
    /\ Len(entities) = MaxMedia /\ Len(ensured) = MaxMedia
    /\ pc = "done" /\ ~failed /\ changed
    /\ \E i \in 1..Len(entities) : media[i] # entities[i]
    /\ Len(calls) = 2 + 2 * MaxMedia
    /\ IsEnsure(calls[Len(calls) - 1]) /\ IsEnsure(calls[Len(calls)])

\* the interface records as supplied and as normalized
SuppliedNics == Get(args.params, "interfaces_attributes")

NormalizedNics == Get(module_params, "interfaces_attributes")

\* the key/value pairs of a record whose value is truthy
TruthyPairs(obj) == {obj[j] : j \in {j \in 1..Len(obj) : PyTrue(obj[j][2])}}

\* a record as a dict: its set of pairs, each key occurring once
AsDict(nic) == Range(nic)

KeysOnce(nic) == \A i, j \in 1..Len(nic) : nic[i][1] = nic[j][1] => i = j

\* the positions of the supplied records that keep at least one pair, in order
KeptPositions == SelectSeq([i \in 1..Len(SuppliedNics) |-> i],
                           LAMBDA i : TruthyPairs(SuppliedNics[i]) # {})

\* every parameter the other normalization rules do not write is as supplied
OtherFieldsUntouched ==
    /\ \A k \in Range(DictKeys(args.params)) \ {"interfaces_attributes", "managed", "build", "mac"} :
          HasKey(module_params, k) /\ Get(module_params, k) = Get(args.params, k)
    /\ Range(DictKeys(module_params)) \ {"entity", "managed", "build", "owner_type"}
          = Range(DictKeys(args.params)) \ {"managed", "build"}

\* C13, as stated: the normalized list holds, for each supplied interface
\* record in the original order, exactly that record's truthy key/value
\* pairs, and the step changes no other field.
C13_AsStated ==
    (mod = "host" /\ pc = "connect" /\ args.state # "absent"
        /\ Supplies("interfaces_attributes"))
    => /\ Len(NormalizedNics) = Len(SuppliedNics)
       /\ \A i \in 1..Len(NormalizedNics) :
            /\ KeysOnce(NormalizedNics[i])
            /\ AsDict(NormalizedNics[i]) = TruthyPairs(SuppliedNics[i])
       /\ OtherFieldsUntouched

\* C13, amended: the normalized list holds, for each supplied interface
\* record that has at least one truthy value, in the original order, exactly
\* that record's truthy key/value pairs; a supplied record all of whose
\* values are empty, false, zero or unset is left out of the list; the step
\* changes no other field.
C13_FalsyValuesAndEmptyRecordsPruned ==
    (mod = "host" /\ pc = "connect" /\ args.state # "absent"
        /\ Supplies("interfaces_attributes"))
    => /\ Len(NormalizedNics) = Len(KeptPositions)
       /\ \A i \in 1..Len(NormalizedNics) :
            /\ KeysOnce(NormalizedNics[i])
            /\ NormalizedNics[i] # <<>>
            /\ AsDict(NormalizedNics[i]) = TruthyPairs(SuppliedNics[KeptPositions[i]])
       /\ OtherFieldsUntouched

C13_Witness ==
    /\ mod = "host" /\ pc = "connect" /\ args.state = "present"
    /\ Supplies("interfaces_attributes")
    /\ SuppliedNics = <<NicMixed, NicFalsy, NicFull>>
    /\ NormalizedNics =
         << << <<"mac", PyStr("aa:bb:02")>>, <<"attached_devices", PyList(<<"eth0">>)>> >>,
            NicFull >>

====
